---- MODULE Spec2Model ----
(***************************************************************************)
(* Contact-form mail service: POST /api/contact of src/server.js.          *)
(* Rate limiter -> validateContactForm -> createTransporter -> verify ->   *)
(* notification send -> auto-reply send -> response.                       *)
(*                                                                         *)
(* Strings are sequences of one-character strings.  An optional value      *)
(* (a JSON field or an environment variable that may be absent) is a       *)
(* sequence of length 0 (absent) or 1 (present).                           *)
(***************************************************************************)
EXTENDS Integers, Sequences, FiniteSets, TLC

VARIABLES
  env,        \* process.env and the deployed server variant
  now,        \* Date.now(), in milliseconds
  store,      \* the limiter's memory store: client -> [totalHits, resetTime]
  admitted,   \* per client: requests let through in the client's current window
  pc,         \* per request slot: position of the request in the route
  client,     \* per request slot: req.ip
  body,       \* per request slot: req.body
  sanitizedBody, \* per request slot: req.sanitizedBody (absent or present)
  calls,      \* per request slot: how often each transport operation was invoked
  results,    \* per request slot: completion of verify / notification / auto-reply
  sent,       \* per request slot: emails the transport accepted, in order
  resp,       \* per request slot: the HTTP response written (status 0: none yet)
  health,     \* body of the latest GET /api/health response (absent: none yet)
  rendered,   \* the latest record given to createEmailTemplates, with the
              \* emails built from it (absent: none yet)
  pending     \* per request slot: the email of the sendMail call that is
              \* awaited (absent when no send is awaited)

vars == <<env, now, store, admitted, pc, client, body,
          sanitizedBody, calls, results, sent, resp, health, rendered, pending>>

----------------------------------------------------------------------------
(* Optional values *)

None == <<>>
Some(v) == <<v>>
IsSome(o) == Len(o) = 1
Get(o) == o[1]

----------------------------------------------------------------------------
(* Strings *)

Rep(c, n) == [i \in 1..n |-> c]

Whitespace == {" ", "\n", "\t"}

RECURSIVE FirstNonWs(_, _)
FirstNonWs(s, i) ==
  IF i > Len(s) \/ s[i] \notin Whitespace THEN i ELSE FirstNonWs(s, i + 1)

RECURSIVE LastNonWs(_, _)
LastNonWs(s, i) ==
  IF i < 1 \/ s[i] \notin Whitespace THEN i ELSE LastNonWs(s, i - 1)

\* String.prototype.trim
trim(s) ==
  LET lo == FirstNonWs(s, 1)
      hi == LastNonWs(s, Len(s))
  IN IF lo > hi THEN <<>> ELSE SubSeq(s, lo, hi)

\* the xss filter's escapeHtml: '<' -> '&lt;', '>' -> '&gt;'
escapeChar(c) ==
  IF c = "<" THEN <<"&", "l", "t", ";">>
  ELSE IF c = ">" THEN <<"&", "g", "t", ";">>
  ELSE <<c>>

RECURSIVE escapeRange(_, _, _)
escapeRange(s, lo, hi) ==
  IF lo > hi THEN <<>>
  ELSE IF lo = hi THEN escapeChar(s[lo])
  ELSE LET mid == (lo + hi) \div 2
       IN escapeRange(s, lo, mid) \o escapeRange(s, mid + 1, hi)

\* xss(html) for text that contains no white-listed tag: every tag-like
\* piece is not on the white list and is escaped, like the text around it.
xss(s) == escapeRange(s, 1, Len(s))

\* xss(v?.toString().trim() || '')
sanitize(raw) == IF IsSome(raw) THEN xss(trim(Get(raw))) ELSE <<>>

----------------------------------------------------------------------------
(* validator.isEmail, default options *)

Letters == {"a", "b", "c", "d", "e", "g", "h", "i", "l", "m", "o", "r", "s",
            "t", "x", "y", "A", "H", "T"}

\* characters of an unquoted local part
UserChars == Letters \cup {"&", "!", "#", "+", "-", "_"}

\* characters of a domain label
LabelChars == Letters \cup {"-"}

Positions(s, c) == {i \in 1..Len(s) : s[i] = c}

SetMax(S) == CHOOSE i \in S : \A j \in S : j <= i

\* str.split(sep) as the sequence of pieces between the separators
RECURSIVE splitFrom(_, _, _)
splitFrom(s, c, from) ==
  LET later == {i \in Positions(s, c) : i >= from}
  IN IF later = {} THEN <<SubSeq(s, from, Len(s))>>
     ELSE LET p == CHOOSE i \in later : \A j \in later : i <= j
          IN <<SubSeq(s, from, p - 1)>> \o splitFrom(s, c, p + 1)

split(s, c) == splitFrom(s, c, 1)

isFQDN(domain) ==
  LET parts == split(domain, ".")
      tld == parts[Len(parts)]
  IN /\ Len(parts) >= 2
     /\ Len(tld) >= 2
     /\ \A i \in 1..Len(tld) : tld[i] \in Letters
     /\ \A k \in 1..Len(parts) :
          /\ Len(parts[k]) >= 1
          /\ Len(parts[k]) <= 63
          /\ \A i \in 1..Len(parts[k]) : parts[k][i] \in LabelChars
          /\ parts[k][1] # "-"
          /\ parts[k][Len(parts[k])] # "-"

isEmail(str) ==
  LET ats == Positions(str, "@")
      last == IF ats = {} THEN 0 ELSE SetMax(ats)
      domain == SubSeq(str, last + 1, Len(str))
      user == SubSeq(str, 1, last - 1)
      user_parts == split(user, ".")
  IN /\ Len(user) <= 64
     /\ Len(domain) <= 254
     /\ isFQDN(domain)
     /\ \A k \in 1..Len(user_parts) :
          /\ Len(user_parts[k]) >= 1
          /\ \A i \in 1..Len(user_parts[k]) : user_parts[k][i] \in UserChars

----------------------------------------------------------------------------
(* Bounds of the model *)

MaxInFlight == 2     \* request slots: requests that can be in flight together
MaxTicks == 2        \* clock steps taken
MaxHits == 6         \* cap on a client's hit counter within one window

Slots == 1..MaxInFlight
Clients == {"ip1", "ip2"}

----------------------------------------------------------------------------
(* Configuration *)

windowMs == 15 * 60 * 1000

\* the clock advances in steps of half a window
TickMs == windowMs \div 2

\* max of the rateLimit options of the deployed variant
max == IF env.variant = "enhanced" THEN 5 ELSE 25

OperatorAddress == <<"m", "e", "@", "x", ".", "c", "o", "m">>

\* The deployments: the server of lines 1-486 ("enhanced") or the one of
\* lines 550-853 ("basic"), with or without the mail credentials.  NODE_ENV
\* is read by the catch block only; deployments in development mode are not
\* enumerated here.
Envs ==
  [variant : {"enhanced", "basic"},
   EMAIL_USER : {None, Some(OperatorAddress)},
   EMAIL_PASS : {None, Some("app-password")},
   RECIPIENT_EMAIL : {None},
   NODE_ENV : {Some("production")}]

\* !!(process.env.EMAIL_USER && process.env.EMAIL_PASS)
emailConfigured == IsSome(env.EMAIL_USER) /\ IsSome(env.EMAIL_PASS)

----------------------------------------------------------------------------
(* validateContactForm *)

Fields == {"name", "email", "subject", "message"}

NoError == ""

sanitizedData(b) ==
  [name |-> sanitize(b.name), email |-> sanitize(b.email),
   subject |-> sanitize(b.subject), message |-> sanitize(b.message)]

\* nameError with the upper limit compared by >=
nameError_inclusiveMax(d) ==
  IF d.name = <<>> THEN "Name is required"
  ELSE IF Len(d.name) < 2 THEN "Name must be at least 2 characters long"
  ELSE IF Len(d.name) >= 100 THEN "Name must be less than 100 characters"
  ELSE NoError

nameError(d) ==
  IF d.name = <<>> THEN "Name is required"
  ELSE IF Len(d.name) < 2 THEN "Name must be at least 2 characters long"
  ELSE IF Len(d.name) > 100 THEN "Name must be less than 100 characters"
  ELSE NoError

emailError(d) ==
  IF d.email = <<>> THEN "Email is required"
  ELSE IF ~isEmail(d.email) THEN "Please enter a valid email address"
  ELSE NoError

\* subjectError that accepts a subject of four characters
subjectError_shortMin(d) ==
  IF d.subject = <<>> THEN "Subject is required"
  ELSE IF Len(d.subject) < 4 THEN "Subject must be at least 5 characters long"
  ELSE IF Len(d.subject) > 200 THEN "Subject must be less than 200 characters"
  ELSE NoError

subjectError(d) ==
  IF d.subject = <<>> THEN "Subject is required"
  ELSE IF Len(d.subject) < 5 THEN "Subject must be at least 5 characters long"
  ELSE IF Len(d.subject) > 200 THEN "Subject must be less than 200 characters"
  ELSE NoError

messageError(d) ==
  IF d.message = <<>> THEN "Message is required"
  ELSE IF Len(d.message) < 10 THEN "Message must be at least 10 characters long"
  ELSE IF Len(d.message) > 1000 THEN "Message must be less than 1000 characters"
  ELSE NoError

\* validationErrors that stops at the first field in error
validationErrors_firstOnly(d) ==
  IF nameError(d) # NoError THEN [f \in {"name"} |-> nameError(d)]
  ELSE IF emailError(d) # NoError THEN [f \in {"email"} |-> emailError(d)]
  ELSE IF subjectError(d) # NoError THEN [f \in {"subject"} |-> subjectError(d)]
  ELSE IF messageError(d) # NoError THEN [f \in {"message"} |-> messageError(d)]
  ELSE [f \in {} |-> NoError]

\* the errors object after the four checks
validationErrors(d) ==
  LET e == [name |-> nameError(d), email |-> emailError(d),
            subject |-> subjectError(d), message |-> messageError(d)]
  IN [f \in {g \in Fields : e[g] # NoError} |-> e[f]]

----------------------------------------------------------------------------
(* Submissions of the request pipeline *)

ValidBody ==
  [name |-> Some(<<"A", "l">>),
   email |-> Some(<<"a", "l", "@", "x", ".", "c", "o", "m">>),
   subject |-> Some(<<"H", "e", "l", "l", "o", " ", "t", "h", "e", "r", "e">>),
   message |-> Some(<<"T", "h", "i", "s", " ", "i", "s", " ", "a", " ", "t", "e", "s", "t", " ", "m", "e", "s", "s", "a", "g", "e", ".">>)]

InvalidBody ==
  [name |-> Some(<<>>),
   email |-> Some(<<"b", "a", "d">>),
   subject |-> Some(<<"H", "i">>),
   message |-> Some(<<"s", "h", "o", "r", "t">>)]

Bodies == {ValidBody, InvalidBody}

----------------------------------------------------------------------------
(* createEmailTemplates *)

\* process.env.RECIPIENT_EMAIL || process.env.EMAIL_USER
notificationTo ==
  IF IsSome(env.RECIPIENT_EMAIL) THEN env.RECIPIENT_EMAIL ELSE env.EMAIL_USER

\* the decimal digits of n
Digits == <<"0", "1", "2", "3", "4", "5", "6", "7", "8", "9">>

RECURSIVE decimal(_)
decimal(n) ==
  IF n < 10 THEN <<Digits[n + 1]>>
  ELSE decimal(n \div 10) \o <<Digits[(n % 10) + 1]>>

twoDigits(n) == IF n < 10 THEN <<"0">> \o decimal(n) ELSE decimal(n)

\* new Date().toLocaleString() at the instant now (en-US, UTC), for the
\* instants of January 1970: "1/1/1970, 12:07:30 AM"
toLocaleString ==
  LET secs == now \div 1000
      day == 1 + secs \div 86400
      h == (secs \div 3600) % 24
      h12 == IF h % 12 = 0 THEN 12 ELSE h % 12
  IN <<"1", "/">> \o decimal(day) \o <<"/", "1", "9", "7", "0", ",", " ">>
       \o decimal(h12) \o <<":">> \o twoDigits((secs \div 60) % 60)
       \o <<":">> \o twoDigits(secs % 60)
       \o <<" ">> \o (IF h < 12 THEN <<"A", "M">> ELSE <<"P", "M">>)

\* the pieces of the notification's plain-text template
TextHead ==
  <<"\n", "N", "e", "w", " ", "C", "o", "n", "t", "a", "c", "t", " ", "F",
    "o", "r", "m", " ", "S", "u", "b", "m", "i", "s", "s", "i", "o", "n",
    "\n", "\n", "N", "a", "m", "e", ":", " ">>

TextEmail ==
  <<"\n", "E", "m", "a", "i", "l", ":", " ">>

TextSubject ==
  <<"\n", "S", "u", "b", "j", "e", "c", "t", ":", " ">>

TextMessage ==
  <<"\n", "\n", "M", "e", "s", "s", "a", "g", "e", ":", "\n">>

TextSent ==
  <<"\n", "\n", "S", "e", "n", "t", ":", " ">>

TextTail ==
  <<"\n", " ", " ", " ", " ">>

\* the text field of the notification
notificationText(data) ==
  TextHead \o data.name \o TextEmail \o data.email \o TextSubject
    \o data.subject \o TextMessage \o data.message \o TextSent
    \o toLocaleString \o TextTail

\* String.prototype.substring(0, n)
substring0(s, n) == SubSeq(s, 1, IF Len(s) < n THEN Len(s) ELSE n)

\* message.substring(0, n) followed by '...' when message.length > n
preview(message, n) ==
  substring0(message, n)
    \o (IF Len(message) > n THEN <<".", ".", ".">> ELSE <<>>)

\* the fixed pieces of the auto-reply's html, each kept as one token; the
\* markup between the places named is left out of the token
HtmlHi == "<div ...><h1 ...>Thank You for Reaching Out!</h1> ... <p ...>Hi "
HtmlThanks == ",</p> ... <h3 ...>Your Message Summary:</h3> <p><strong>Subject:</strong> "
HtmlMessage == "</p> <p><strong>Message:</strong> "
HtmlRest == "</p> </div> ... Best regards ... </div>"

\* the html field of the auto-reply
autoReplyHtml(data) ==
  <<HtmlHi>> \o data.name \o <<HtmlThanks>> \o data.subject
    \o <<HtmlMessage>> \o preview(data.message, 100) \o <<HtmlRest>>

\* the fixed pieces of the auto-reply's plain text, each kept as one token
ReplyHi == "\nHi "
ReplyThanks == ",\n\nThank you for your message! ... \n\nYour Message Summary:\nSubject: "
ReplyMessage == "\nMessage: "
ReplyRest == "\n\nBest regards,\nYassine Chadani\nFull Stack Developer\n    "

\* the text field of the auto-reply
autoReplyText(data) ==
  <<ReplyHi>> \o data.name \o <<ReplyThanks>> \o data.subject
    \o <<ReplyMessage>> \o preview(data.message, 200) \o <<ReplyRest>>

\* createEmailTemplates that addresses the notification to the submitter
createEmailTemplates_toSubmitter(data) ==
  [notificationEmail |->
     [kind |-> "notification",
      to |-> Some(data.email),
      subject |-> <<"New Contact Form Submission: ">> \o data.subject,
      text |-> notificationText(data)],
   autoReplyEmail |->
     [kind |-> "autoReply",
      to |-> Some(data.email),
      subject |-> <<"Thank you for contacting me - ">> \o data.subject,
      html |-> autoReplyHtml(data),
      text |-> autoReplyText(data)]]

\* the fixed text in front of the subject is kept as one token
createEmailTemplates(data) ==
  [notificationEmail |->
     [kind |-> "notification",
      to |-> notificationTo,
      subject |-> <<"New Contact Form Submission: ">> \o data.subject,
      text |-> notificationText(data)],
   autoReplyEmail |->
     [kind |-> "autoReply",
      to |-> Some(data.email),
      subject |-> <<"Thank you for contacting me - ">> \o data.subject,
      html |-> autoReplyHtml(data),
      text |-> autoReplyText(data)]]

----------------------------------------------------------------------------
(* Responses *)

NoResponse == [status |-> 0, body |-> [success |-> FALSE]]

\* the limiter's `message` option, sent with status 429
rateLimitedResponse ==
  [status |-> 429,
   body |-> [error |-> "Too many contact form submissions, please try again later.",
             status |-> "rate_limit_exceeded"]]

validationFailedResponse(errors) ==
  [status |-> 400,
   body |-> [success |-> FALSE, error |-> "Validation failed", errors |-> errors]]

SuccessMessage == "Your message has been sent successfully! I'll get back to you soon."

\* successResponse that reports the notification's id for both messages
successResponse_sameId(notificationResult, autoReplyResult) ==
  [status |-> 200,
   body |-> [success |-> TRUE, message |-> SuccessMessage,
             messageIds |-> [notification |-> notificationResult.messageId,
                             autoReply |-> notificationResult.messageId]]]

successResponse(notificationResult, autoReplyResult) ==
  IF env.variant = "enhanced"
  THEN [status |-> 200,
        body |-> [success |-> TRUE, message |-> SuccessMessage,
                  messageIds |-> [notification |-> notificationResult.messageId,
                                  autoReply |-> autoReplyResult.messageId]]]
  ELSE [status |-> 200,
        body |-> [success |-> TRUE, message |-> SuccessMessage]]

(* Errors: [code, message]; code "" when the error has no code *)

ConfigMissingError == [code |-> "", message |-> "Email configuration missing"]
NotAFunctionError ==
  [code |-> "", message |-> "nodemailer.createTransporter is not a function"]

TransportErrors ==
  {[code |-> "EAUTH", message |-> "Invalid login"],
   [code |-> "ECONNECTION", message |-> "Connection closed"],
   [code |-> "ETIMEDOUT", message |-> "Connection timeout"]}

GenericMessage == "There was an error sending your message. Please try again later."
ConnectionMessage ==
  "Connection error. Please check your internet connection and try again."
ConfigMessage == "Server configuration error. Please contact the administrator."

AuthMessage ==
  IF env.variant = "enhanced"
  THEN "Email authentication failed. Please contact the administrator."
  ELSE "Email authentication failed. Please try again later."

\* error.message.includes('Email configuration missing')
includesConfigMissing(message) == message = ConfigMissingError.message

\* errorMessage without the branch on ECONNECTION
errorMessage_noConnectionBranch(error) ==
  IF error.code = "EAUTH" THEN AuthMessage
  ELSE IF env.variant = "enhanced" /\ includesConfigMissing(error.message)
       THEN ConfigMessage
  ELSE GenericMessage

\* the catch block's choice of errorMessage
errorMessage(error) ==
  IF error.code = "EAUTH" THEN AuthMessage
  ELSE IF error.code = "ECONNECTION" THEN ConnectionMessage
  ELSE IF env.variant = "enhanced" /\ includesConfigMissing(error.message)
       THEN ConfigMessage
  ELSE GenericMessage

\* catchResponse that hands the error's own message and code to the caller
catchResponse_leaky(error) ==
  [status |-> 500,
   body |-> [success |-> FALSE, error |-> error.message, code |-> error.code]]

\* the catch block's response
catchResponse(error) ==
  IF env.variant = "enhanced"
  THEN [status |-> 500,
        body |-> [success |-> FALSE, error |-> errorMessage(error),
                  debug |-> IF env.NODE_ENV = Some("development")
                            THEN Some([code |-> error.code, message |-> error.message])
                            ELSE None]]
  ELSE [status |-> 500,
        body |-> [success |-> FALSE, error |-> errorMessage(error)]]

----------------------------------------------------------------------------
(* State *)

NoCalls == [create |-> 0, verify |-> 0, notification |-> 0, autoReply |-> 0]
NoResults == [verify |-> "none", notification |-> "none", autoReply |-> "none"]

Init ==
  /\ env \in Envs
  /\ now = 0
  /\ store = [c \in Clients |-> [totalHits |-> 0, resetTime |-> 0]]
  /\ admitted = [c \in Clients |-> 0]
  /\ pc = [r \in Slots |-> "idle"]
  /\ client = [r \in Slots |-> "ip1"]
  /\ body = [r \in Slots |-> ValidBody]
  /\ sanitizedBody = [r \in Slots |-> None]
  /\ calls = [r \in Slots |-> NoCalls]
  /\ results = [r \in Slots |-> NoResults]
  /\ sent = [r \in Slots |-> <<>>]
  /\ resp = [r \in Slots |-> NoResponse]
  /\ health = None
  /\ rendered = None
  /\ pending = [r \in Slots |-> None]

\* the transport's acknowledgement of an accepted message
messageIdOf(r, kind) == <<r, kind>>

\* a message the transport accepted, as it stands in the sent log
accepted(r, mail) ==
  [kind |-> mail.kind, to |-> mail.to, subject |-> mail.subject,
   messageId |-> messageIdOf(r, mail.kind)]

----------------------------------------------------------------------------
(* Actions *)

\* time passes
Tick ==
  /\ now < MaxTicks * TickMs
  /\ now' = now + TickMs
  /\ UNCHANGED <<env, health, rendered, pending, store, admitted, pc, client, body,
                 sanitizedBody, calls, results, sent, resp>>

\* the hits of client c's window once the requests of c that wait at the
\* limiter are counted
pendingHits(c) ==
  (IF store[c].resetTime <= now THEN 0 ELSE store[c].totalHits)
    + Cardinality({q \in Slots : pc[q] = "received" /\ client[q] = c})

\* a POST /api/contact arrives from client c with body b; the model takes
\* no more requests of c than MaxHits per window
Receive(r, c, b) ==
  /\ pc[r] \in {"idle", "done"}
  /\ \A q \in Slots : q < r => pc[q] \notin {"idle", "done"}
  /\ pendingHits(c) < MaxHits
  /\ pc' = [pc EXCEPT ![r] = "received"]
  /\ client' = [client EXCEPT ![r] = c]
  /\ body' = [body EXCEPT ![r] = b]
  /\ sanitizedBody' = [sanitizedBody EXCEPT ![r] = None]
  /\ calls' = [calls EXCEPT ![r] = NoCalls]
  /\ results' = [results EXCEPT ![r] = NoResults]
  /\ sent' = [sent EXCEPT ![r] = <<>>]
  /\ resp' = [resp EXCEPT ![r] = NoResponse]
  /\ UNCHANGED <<env, health, rendered, pending, now, store, admitted>>

\* increment as a read-then-write that loses the hit when another request
\* of the client is in flight
increment_lostUpdate(c) ==
  LET cur == store[c]
      base == IF cur.resetTime <= now
              THEN [totalHits |-> 0, resetTime |-> now + windowMs]
              ELSE cur
      racing == \E q \in Slots :
                  /\ client[q] = c
                  /\ pc[q] \in {"verifying", "sending_notification",
                                "sending_autoreply"}
  IN IF racing /\ base.totalHits > 0
     THEN base
     ELSE [base EXCEPT !.totalHits = @ + 1]

\* increment that keeps one window for all clients, under the first key
increment_sharedKey(c) ==
  LET cur == store["ip1"]
      base == IF cur.resetTime <= now
              THEN [totalHits |-> 0, resetTime |-> now + windowMs]
              ELSE cur
  IN [base EXCEPT !.totalHits = @ + 1]

\* the memory store's increment(key): a window that has run out is reset,
\* then the hit is counted
increment(c) ==
  LET cur == store[c]
      base == IF cur.resetTime <= now
              THEN [totalHits |-> 0, resetTime |-> now + windowMs]
              ELSE cur
  IN [base EXCEPT !.totalHits = @ + 1]

\* overLimit that lets one request too many through
overLimit_offByOne(totalHits) == totalHits > max + 1

\* the limiter's decision on the counted hit
overLimit(totalHits) == totalHits > max

\* the rate limiting middleware
contactLimiter(r) ==
  LET c == client[r]
      hit == increment(c)
      fresh == store[c].resetTime <= now
  IN /\ pc[r] = "received"
     /\ store' = [store EXCEPT ![c] = hit]
     /\ IF overLimit(hit.totalHits)
        THEN /\ resp' = [resp EXCEPT ![r] = rateLimitedResponse]
             /\ pc' = [pc EXCEPT ![r] = "done"]
             /\ admitted' = [admitted EXCEPT ![c] = IF fresh THEN 0 ELSE @]
        ELSE /\ pc' = [pc EXCEPT ![r] = "rate_checked"]
             /\ admitted' = [admitted EXCEPT ![c] = IF fresh THEN 1 ELSE @ + 1]
             /\ UNCHANGED resp
     /\ UNCHANGED <<env, health, rendered, pending, now, client, body, sanitizedBody, calls, results, sent>>

\* createTransporter(): "ok", or the error it throws
createTransporter ==
  IF env.variant = "enhanced"
  THEN IF ~IsSome(env.EMAIL_USER) \/ ~IsSome(env.EMAIL_PASS)
       THEN ConfigMissingError
       ELSE [code |-> "", message |-> "ok"]
  ELSE NotAFunctionError

\* catch that ends the request without writing a response
catch_silent(r, error) ==
  /\ UNCHANGED resp
  /\ pc' = [pc EXCEPT ![r] = "done"]

\* the catch block of the route: the request ends with the error's response
catch(r, error) ==
  /\ resp' = [resp EXCEPT ![r] = catchResponse(error)]
  /\ pc' = [pc EXCEPT ![r] = "done"]

\* validateContactForm that gives the hit back to the client when it
\* answers 400
validateContactForm_refund(r) ==
  LET d == sanitizedData(body[r])
      errors == validationErrors(d)
      c == client[r]
  IN /\ pc[r] = "rate_checked"
     /\ DOMAIN errors # {}
     /\ resp' = [resp EXCEPT ![r] = validationFailedResponse(errors)]
     /\ pc' = [pc EXCEPT ![r] = "done"]
     /\ store' = [store EXCEPT ![c].totalHits = IF @ > 0 THEN @ - 1 ELSE @]
     /\ UNCHANGED <<env, health, rendered, pending, now, admitted, client, body, sanitizedBody, calls,
                    results, sent>>

\* validateContactForm whose 400 branch does not return: next() runs too
validateContactForm_noReturn(r) ==
  LET d == sanitizedData(body[r])
      errors == validationErrors(d)
  IN /\ pc[r] = "rate_checked"
     /\ createTransporter.message = "ok"
     /\ resp' = [resp EXCEPT ![r] =
                   IF DOMAIN errors # {} THEN validationFailedResponse(errors)
                   ELSE @]
     /\ sanitizedBody' = [sanitizedBody EXCEPT ![r] = Some(d)]
     /\ calls' = [calls EXCEPT ![r].create = @ + 1, ![r].verify = @ + 1]
     /\ pc' = [pc EXCEPT ![r] = "verifying"]
     /\ UNCHANGED <<env, health, rendered, pending, now, store, admitted, client, body, results, sent>>

\* validateContactForm, and on success the route handler up to its first await
validateContactForm(r) ==
  LET d == sanitizedData(body[r])
      errors == validationErrors(d)
      transporter == createTransporter
  IN /\ pc[r] = "rate_checked"
     /\ IF DOMAIN errors # {}
        THEN /\ resp' = [resp EXCEPT ![r] = validationFailedResponse(errors)]
             /\ pc' = [pc EXCEPT ![r] = "done"]
             /\ UNCHANGED <<sanitizedBody, calls>>
        ELSE /\ sanitizedBody' = [sanitizedBody EXCEPT ![r] = Some(d)]
             /\ IF transporter.message = "ok"
                THEN /\ calls' = [calls EXCEPT ![r].create = @ + 1,
                                               ![r].verify = @ + 1]
                     /\ pc' = [pc EXCEPT ![r] = "verifying"]
                     /\ UNCHANGED resp
                ELSE /\ catch(r, transporter)
                     /\ UNCHANGED calls
     /\ UNCHANGED <<env, health, rendered, pending, now, store, admitted, client, body,
                    results, sent>>

\* VerifyDone that goes on to the notification whatever verify() reported
VerifyDone_ignoreFailure(r, outcome) ==
  /\ pc[r] = "verifying"
  /\ results' = [results EXCEPT ![r].verify = outcome.code]
  /\ pending' = [pending EXCEPT ![r] =
        Some(createEmailTemplates(Get(sanitizedBody[r])).notificationEmail)]
  /\ calls' = [calls EXCEPT ![r].notification = @ + 1]
  /\ pc' = [pc EXCEPT ![r] = "sending_notification"]
  /\ UNCHANGED <<env, health, rendered, now, store, admitted, client, body, sanitizedBody,
                 sent, resp>>

\* VerifyDone that builds the templates from a record shared by the
\* requests (the record of another request when there is one) instead of
\* req.sanitizedBody
VerifyDone_sharedRecord(r, outcome) ==
  LET others == {s \in Slots \ {r} : IsSome(sanitizedBody[s])}
      shared == IF others = {} THEN r ELSE CHOOSE s \in others : TRUE
  IN /\ pc[r] = "verifying"
     /\ results' = [results EXCEPT ![r].verify = outcome.code]
     /\ IF outcome.code = "ok"
        THEN /\ pending' = [pending EXCEPT ![r] =
                Some(createEmailTemplates(Get(sanitizedBody[shared])).notificationEmail)]
             /\ calls' = [calls EXCEPT ![r].notification = @ + 1]
             /\ pc' = [pc EXCEPT ![r] = "sending_notification"]
             /\ UNCHANGED resp
        ELSE /\ catch(r, outcome)
             /\ UNCHANGED <<calls, pending>>
     /\ UNCHANGED <<env, health, rendered, now, store, admitted, client, body,
                    sanitizedBody, sent>>

\* transporter.verify() completes; on success the templates are built and
\* the notification is handed to the transport
VerifyDone(r, outcome) ==
  /\ pc[r] = "verifying"
  /\ results' = [results EXCEPT ![r].verify = outcome.code]
  /\ IF outcome.code = "ok"
     THEN /\ pending' = [pending EXCEPT ![r] =
             Some(createEmailTemplates(Get(sanitizedBody[r])).notificationEmail)]
          /\ calls' = [calls EXCEPT ![r].notification = @ + 1]
          /\ pc' = [pc EXCEPT ![r] = "sending_notification"]
          /\ UNCHANGED resp
     ELSE /\ catch(r, outcome)
          /\ UNCHANGED <<calls, pending>>
  /\ UNCHANGED <<env, health, rendered, now, store, admitted, client, body,
                 sanitizedBody, sent>>

\* NotificationDone that sends the notification a second time when the
\* first send failed
NotificationDone_retry(r, outcome) ==
  /\ pc[r] = "sending_notification"
  /\ results' = [results EXCEPT ![r].notification = outcome.code]
  /\ IF outcome.code = "ok"
     THEN /\ sent' = [sent EXCEPT ![r] =
                Append(@, accepted(r,
                  createEmailTemplates(Get(sanitizedBody[r])).notificationEmail))]
          /\ calls' = [calls EXCEPT ![r].autoReply = @ + 1]
          /\ pc' = [pc EXCEPT ![r] = "sending_autoreply"]
          /\ UNCHANGED resp
     ELSE IF calls[r].notification < 2
     THEN /\ calls' = [calls EXCEPT ![r].notification = @ + 1]
          /\ UNCHANGED <<pc, resp, sent>>
     ELSE /\ catch(r, outcome)
          /\ UNCHANGED <<calls, sent>>
  /\ UNCHANGED <<env, health, rendered, pending, now, store, admitted, client, body, sanitizedBody>>

\* NotificationDone that goes on to the auto-reply when the notification
\* failed
NotificationDone_continueOnFailure(r, outcome) ==
  /\ pc[r] = "sending_notification"
  /\ results' = [results EXCEPT ![r].notification = outcome.code]
  /\ sent' = [sent EXCEPT ![r] =
        IF outcome.code = "ok"
        THEN Append(@, accepted(r,
               createEmailTemplates(Get(sanitizedBody[r])).notificationEmail))
        ELSE @]
  /\ calls' = [calls EXCEPT ![r].autoReply = @ + 1]
  /\ pc' = [pc EXCEPT ![r] = "sending_autoreply"]
  /\ UNCHANGED <<env, health, rendered, pending, now, store, admitted, client, body, sanitizedBody, resp>>

\* transporter.sendMail(notificationEmail) completes; on success the
\* auto-reply is handed to the transport
NotificationDone(r, outcome) ==
  LET mails == createEmailTemplates(Get(sanitizedBody[r]))
  IN /\ pc[r] = "sending_notification"
     /\ results' = [results EXCEPT ![r].notification = outcome.code]
     /\ IF outcome.code = "ok"
        THEN /\ sent' = [sent EXCEPT ![r] =
                           Append(@, accepted(r, Get(pending[r])))]
             \* the auto-reply built with the notification (line 383): it
             \* carries no time, so it is the same email when built here
             /\ pending' = [pending EXCEPT ![r] = Some(mails.autoReplyEmail)]
             /\ calls' = [calls EXCEPT ![r].autoReply = @ + 1]
             /\ pc' = [pc EXCEPT ![r] = "sending_autoreply"]
             /\ UNCHANGED resp
        ELSE /\ catch(r, outcome)
             /\ pending' = [pending EXCEPT ![r] = None]
             /\ UNCHANGED <<calls, sent>>
     /\ UNCHANGED <<env, health, rendered, now, store, admitted, client, body,
                    sanitizedBody>>

\* AutoReplyDone that withdraws the notification when the auto-reply fails
AutoReplyDone_rollback(r, outcome) ==
  LET mails == createEmailTemplates(Get(sanitizedBody[r]))
      notificationResult == [messageId |-> sent[r][1].messageId]
      autoReplyResult == [messageId |-> messageIdOf(r, "autoReply")]
  IN /\ pc[r] = "sending_autoreply"
     /\ results' = [results EXCEPT ![r].autoReply = outcome.code]
     /\ IF outcome.code = "ok"
        THEN /\ sent' = [sent EXCEPT ![r] =
                           Append(@, accepted(r, mails.autoReplyEmail))]
             /\ resp' = [resp EXCEPT ![r] =
                           successResponse(notificationResult, autoReplyResult)]
             /\ pc' = [pc EXCEPT ![r] = "done"]
        ELSE /\ catch(r, outcome)
             /\ sent' = [sent EXCEPT ![r] = <<>>]
     /\ UNCHANGED <<env, health, rendered, pending, now, store, admitted, client, body, sanitizedBody,
                    calls>>

\* transporter.sendMail(autoReplyEmail) completes; on success the request
\* is answered 200
AutoReplyDone(r, outcome) ==
  LET mails == createEmailTemplates(Get(sanitizedBody[r]))
      notificationResult == [messageId |-> sent[r][1].messageId]
      autoReplyResult == [messageId |-> messageIdOf(r, "autoReply")]
  IN /\ pc[r] = "sending_autoreply"
     /\ results' = [results EXCEPT ![r].autoReply = outcome.code]
     /\ pending' = [pending EXCEPT ![r] = None]
     /\ IF outcome.code = "ok"
        THEN /\ sent' = [sent EXCEPT ![r] =
                           Append(@, accepted(r, Get(pending[r])))]
             /\ resp' = [resp EXCEPT ![r] =
                           successResponse(notificationResult, autoReplyResult)]
             /\ pc' = [pc EXCEPT ![r] = "done"]
        ELSE /\ catch(r, outcome)
             /\ UNCHANGED sent
     /\ UNCHANGED <<env, health, rendered, now, store, admitted, client, body,
                    sanitizedBody, calls>>

\* completions of a transport operation
Ok == [code |-> "ok", message |-> "ok"]
Outcomes == {Ok} \cup TransportErrors

----------------------------------------------------------------------------
(* The request pipeline: every deployment, every completion of the        *)
(* transport operations, the requests of one client.                      *)

PipelineClients == {"ip1"}

Next ==
  \/ Tick
  \/ \E r \in Slots, c \in PipelineClients, b \in Bodies : Receive(r, c, b)
  \/ \E r \in Slots : contactLimiter(r)
  \/ \E r \in Slots : validateContactForm(r)
  \/ \E r \in Slots, o \in Outcomes : VerifyDone(r, o)
  \/ \E r \in Slots, o \in Outcomes : NotificationDone(r, o)
  \/ \E r \in Slots, o \in Outcomes : AutoReplyDone(r, o)

Spec == Init /\ [][Next]_vars

----------------------------------------------------------------------------
(* validateContactForm as a function of the submission: one request that  *)
(* has passed the limiter, its body drawn from the inputs below, in the    *)
(* configured production deployment of the server of lines 1-486.         *)

ProductionEnv ==
  [variant |-> "enhanced", EMAIL_USER |-> Some(OperatorAddress),
   EMAIL_PASS |-> Some("app-password"), RECIPIENT_EMAIL |-> None,
   NODE_ENV |-> Some("production")]

NameInputs ==
  {None, Some(<<>>), Some(<<"x">>), Some(<<"x", "x">>), Some(<<" ", "x">>),
   Some(Rep("x", 100)), Some(Rep("x", 101)), Some(Rep("x", 99) \o <<"<">>),
   Some(Rep("x", 100) \o <<" ">>)}

EmailInputs ==
  {None, Some(<<"b", "a", "d">>), Some(<<"a", "l", "@", "x", ".", "c", "o", "m">>), Some(<<" ">> \o <<"a", "l", "@", "x", ".", "c", "o", "m">> \o <<" ">>),
   Some(<<"a", "<", "l", "@", "x", ".", "c", "o", "m">>), Some(<<"a", "l", "@", "x">>)}

SubjectInputs ==
  {Some(<<"H", "i">>), Some(Rep("x", 4)), Some(Rep("x", 5)), Some(Rep("x", 200)),
   Some(Rep("x", 201)), Some(Rep(" ", 5))}

MessageInputs ==
  {Some(<<"s", "h", "o", "r", "t">>), Some(Rep("x", 9)), Some(Rep("x", 10)), Some(Rep("x", 1000)),
   Some(Rep("x", 1001)), Some(Rep("x", 999) \o <<"<">>),
   Some(Rep("x", 5) \o <<"\n">> \o Rep("x", 5))}

ValidateInputs ==
  [name : NameInputs, email : EmailInputs, subject : SubjectInputs,
   message : MessageInputs]

InitValidate ==
  /\ env = ProductionEnv
  /\ now = 0
  /\ store = [c \in Clients |->
                IF c = "ip1" THEN [totalHits |-> 1, resetTime |-> windowMs]
                ELSE [totalHits |-> 0, resetTime |-> 0]]
  /\ admitted = [c \in Clients |-> IF c = "ip1" THEN 1 ELSE 0]
  /\ pc = [r \in Slots |-> IF r = 1 THEN "rate_checked" ELSE "idle"]
  /\ client = [r \in Slots |-> "ip1"]
  /\ \E b \in ValidateInputs : body = [r \in Slots |-> b]
  /\ sanitizedBody = [r \in Slots |-> None]
  /\ calls = [r \in Slots |-> NoCalls]
  /\ results = [r \in Slots |-> NoResults]
  /\ sent = [r \in Slots |-> <<>>]
  /\ resp = [r \in Slots |-> NoResponse]
  /\ health = None
  /\ rendered = None
  /\ pending = [r \in Slots |-> None]

NextValidate == \E r \in Slots : validateContactForm(r)

SpecValidate == InitValidate /\ [][NextValidate]_vars

----------------------------------------------------------------------------
(* Properties of validateContactForm, under SpecValidate *)

\* the request has been through validateContactForm
Validated(r) == pc[r] \in {"verifying", "done"} /\ resp[r].status # 429

InRange(s, lo, hi) == Len(s) >= lo /\ Len(s) <= hi

\* the field constraints, on the submitted values as received
RawValid(b) ==
  /\ IsSome(b.name) /\ InRange(Get(b.name), 2, 100)
  /\ IsSome(b.email) /\ isEmail(Get(b.email))
  /\ IsSome(b.subject) /\ InRange(Get(b.subject), 5, 200)
  /\ IsSome(b.message) /\ InRange(Get(b.message), 10, 1000)

\* the constraint of one field, on the sanitized value
FieldOk(d, f) ==
  IF f = "name" THEN InRange(d.name, 2, 100)
  ELSE IF f = "email" THEN isEmail(d.email)
  ELSE IF f = "subject" THEN InRange(d.subject, 5, 200)
  ELSE InRange(d.message, 10, 1000)

\* the request passed validation: no 400, the sanitized record is attached
\* and the send handler has started (it is awaiting verify)
PassedOn(r) ==
  /\ resp[r].status # 400
  /\ sanitizedBody[r] = Some(sanitizedData(body[r]))
  /\ pc[r] = "verifying"
  /\ calls[r].verify = 1

\* C3 as stated: every submission whose submitted name has length in
\* [2,100], whose submitted email is well formed, whose submitted subject
\* has length in [5,200] and whose submitted message has length in
\* [10,1000] passes validation and reaches the send handler.
C3_AsStated ==
  \A r \in Slots : (Validated(r) /\ RawValid(body[r])) => PassedOn(r)

\* C3, amended: every submission whose fields, after trimming and escaping
\* by the sanitizer, satisfy name length in [2,100], well-formed email,
\* subject length in [5,200] and message length in [10,1000] (boundary
\* lengths included) passes validation: no 400, the sanitized record is
\* attached to the request and the send handler runs.
C3_SanitizedValidPasses ==
  \A r \in Slots :
    (Validated(r) /\ \A f \in Fields : FieldOk(sanitizedData(body[r]), f))
      => PassedOn(r)

\* a submission with every length on its upper boundary has passed
C3_Witness ==
  \E r \in Slots :
    /\ PassedOn(r)
    /\ Len(Get(sanitizedBody[r]).name) = 100
    /\ Len(Get(sanitizedBody[r]).subject) = 200
    /\ Len(Get(sanitizedBody[r]).message) = 1000

\* C4: validateContactForm checks the four fields independently: the errors
\* map of the 400 response has an entry for every field whose sanitized
\* value violates its constraint, not only for the first one.
C4_EveryViolatedFieldReported ==
  \A r \in Slots :
    Validated(r) =>
      \A f \in Fields :
        ~FieldOk(sanitizedData(body[r]), f)
          => /\ resp[r].status = 400
             /\ f \in DOMAIN resp[r].body.errors
             /\ resp[r].body.errors[f] # NoError

\* the scenario with all four fields violated has been answered
C4_Witness ==
  \E r \in Slots :
    /\ resp[r].status = 400
    /\ DOMAIN resp[r].body.errors = Fields
    /\ \A f \in Fields : ~FieldOk(sanitizedData(body[r]), f)

----------------------------------------------------------------------------
(* Properties of the rate limiter, under Spec *)

\* the client's window is running
WindowRunning(c) == store[c].resetTime > now

\* slot r's request is taken through the limiter by this step
PassesLimiter(r) == pc[r] = "received" /\ pc'[r] # "received"

Suspended == {"verifying", "sending_notification", "sending_autoreply"}

\* C1: once max requests of a client have been admitted in its running
\* window, the client's next request in that window is answered 429 with
\* status 'rate_limit_exceeded'; the first request of the client after the
\* window has run out is admitted.
C1_LimitThenReset ==
  [][\A r \in Slots :
       PassesLimiter(r) =>
         /\ (WindowRunning(client[r]) /\ admitted[client[r]] = max)
              => /\ pc'[r] = "done"
                 /\ resp'[r].status = 429
                 /\ resp'[r].body.status = "rate_limit_exceeded"
         /\ ~WindowRunning(client[r])
              => /\ pc'[r] = "rate_checked"
                 /\ resp'[r].status = 0]_vars

\* one request of a client was answered 429, and a later request of the
\* same client, after the window ran out, is the first of a new window
C1_Witness ==
  \E r1, r2 \in Slots :
    /\ r1 # r2
    /\ client[r1] = client[r2]
    /\ resp[r1].status = 429
    /\ pc[r2] = "rate_checked"
    /\ store[client[r2]].totalHits = 1
    /\ now >= windowMs

\* C2: under every interleaving of the requests, the number of requests of
\* one client admitted past the limiter within one window never exceeds max.
C2_AdmittedWithinMax == \A c \in Clients : admitted[c] <= max

\* two requests of one client are suspended on transport operations while
\* the client's window is used up
C2_Witness ==
  \E r1, r2 \in Slots :
    /\ r1 # r2
    /\ client[r1] = client[r2]
    /\ pc[r1] \in Suspended
    /\ pc[r2] \in Suspended
    /\ admitted[client[r1]] = max
    /\ WindowRunning(client[r1])

----------------------------------------------------------------------------
(* Properties of the send handler, under Spec *)

Failed(outcome) == outcome \notin {"none", "ok"}

\* the response says success:true (the 429 body has no such field)
ReportsSuccess(r) == resp[r].status # 429 /\ resp[r].body.success

AllSucceeded(r) ==
  /\ results[r].verify = "ok"
  /\ results[r].notification = "ok"
  /\ results[r].autoReply = "ok"

\* C5: a request is answered 200 with success:true exactly when its
\* verification, its notification send and its auto-reply send all
\* succeeded; then both emails are in the transport's log and the response
\* carries their two message identifiers.
C5_SuccessIffAllSucceeded ==
  \A r \in Slots :
    /\ (resp[r].status = 200 /\ ReportsSuccess(r)) <=> AllSucceeded(r)
    /\ ReportsSuccess(r) => resp[r].status = 200
    /\ resp[r].status = 200 =>
         /\ Len(sent[r]) = 2
         /\ sent[r][1].kind = "notification"
         /\ sent[r][2].kind = "autoReply"
         /\ sent[r][1].messageId # sent[r][2].messageId
         /\ resp[r].body.messageIds.notification = sent[r][1].messageId
         /\ resp[r].body.messageIds.autoReply = sent[r][2].messageId

C5_Witness ==
  \E r \in Slots : resp[r].status = 200 /\ AllSucceeded(r) /\ Len(sent[r]) = 2

\* C6: a request whose transport verification failed ends with a 500
\* response carrying one of the transport-failure user messages, and neither
\* of its emails is handed to the transport.
C6_VerifyFailureSendsNothing ==
  \A r \in Slots :
    Failed(results[r].verify) =>
      /\ pc[r] = "done"
      /\ resp[r].status = 500
      /\ ~resp[r].body.success
      /\ resp[r].body.error \in {AuthMessage, ConnectionMessage, GenericMessage}
      /\ calls[r].notification = 0
      /\ calls[r].autoReply = 0
      /\ sent[r] = <<>>

C6_Witness ==
  \E r \in Slots :
    results[r].verify = "EAUTH" /\ resp[r].status = 500 /\ sent[r] = <<>>

\* C7: when the notification send succeeded and the auto-reply send failed,
\* the request is answered 500 with success:false and the notification is
\* in the transport's log, once: neither withdrawn nor sent again.
C7_NotificationKept ==
  \A r \in Slots :
    (results[r].notification = "ok" /\ Failed(results[r].autoReply)) =>
      /\ pc[r] = "done"
      /\ resp[r].status = 500
      /\ ~resp[r].body.success
      /\ Len(sent[r]) = 1
      /\ sent[r][1].kind = "notification"
      /\ calls[r].notification = 1
      /\ calls[r].autoReply = 1

C7_Witness ==
  \E r \in Slots :
    /\ results[r].notification = "ok"
    /\ Failed(results[r].autoReply)
    /\ resp[r].status = 500
    /\ Len(sent[r]) = 1

\* the request got past the limiter and its body fails validation
FailsValidation(r) ==
  /\ pc[r] \in {"done"} \cup Suspended
  /\ resp[r].status # 429
  /\ DOMAIN validationErrors(sanitizedData(body[r])) # {}

\* C8 (under SpecHandler, on every submission of ValidateInputs): a request
\* whose validation fails ends with the 400 response
\* {success:false, error:'Validation failed', errors}, errors not empty, and
\* for that request no transporter is created, nothing is verified and no
\* email is sent.
C8_ValidationFailureStops ==
  \A r \in Slots :
    /\ FailsValidation(r) => /\ pc[r] = "done"
                             /\ resp[r].status = 400
    /\ resp[r].status = 400 =>
         /\ ~resp[r].body.success
         /\ resp[r].body.error = "Validation failed"
         /\ DOMAIN resp[r].body.errors # {}
         /\ sanitizedBody[r] = None
         /\ calls[r] = NoCalls
         /\ results[r] = NoResults
         /\ sent[r] = <<>>

C8_Witness ==
  \E r \in Slots :
    FailsValidation(r) /\ resp[r].status = 400 /\ calls[r] = NoCalls

\* C9 as stated: with EMAIL_USER or EMAIL_PASS not configured, a request
\* that passed the limiter and validation invokes neither verification nor
\* a send, and ends with the configuration-fault message, which is none of
\* the authentication, connection and generic messages.
C9_ConfigFaultReported ==
  \A r \in Slots :
    (~emailConfigured /\ IsSome(sanitizedBody[r])) =>
      /\ calls[r].verify = 0
      /\ calls[r].notification = 0
      /\ calls[r].autoReply = 0
      /\ pc[r] = "done"
      /\ resp[r].status = 500
      /\ resp[r].body.error = ConfigMessage
      /\ ConfigMessage \notin {AuthMessage, ConnectionMessage, GenericMessage}

\* the stage at which the request failed, "" when none did
FailedStage(r) ==
  IF Failed(results[r].verify) THEN "verify"
  ELSE IF Failed(results[r].notification) THEN "notification"
  ELSE IF Failed(results[r].autoReply) THEN "autoReply"
  ELSE ""

\* the code of the error the request failed with
FailureCode(r) ==
  IF Failed(results[r].verify) THEN results[r].verify
  ELSE IF Failed(results[r].notification) THEN results[r].notification
  ELSE results[r].autoReply

\* C10 as stated: the error outcome identifies the stage that failed, so the
\* same transport error at two different stages gives two distinguishable
\* outcomes.
C10_StageDistinguishable ==
  \A r1, r2 \in Slots :
    (/\ FailedStage(r1) # ""
     /\ FailedStage(r2) # ""
     /\ FailedStage(r1) # FailedStage(r2)
     /\ FailureCode(r1) = FailureCode(r2))
      => resp[r1] # resp[r2]

\* C10, amended: the error outcome identifies the kind of error, not the
\* stage: whatever stage failed, code EAUTH gives the authentication
\* message, code ECONNECTION the connection message and any other transport
\* error the generic message; the same transport error at two different
\* stages gives the same response.
C10_ErrorKindNotStage ==
  /\ \A r \in Slots :
       FailedStage(r) # "" =>
         /\ resp[r].status = 500
         /\ FailureCode(r) = "EAUTH" => resp[r].body.error = AuthMessage
         /\ FailureCode(r) = "ECONNECTION"
              => resp[r].body.error = ConnectionMessage
         /\ FailureCode(r) \notin {"EAUTH", "ECONNECTION"}
              => resp[r].body.error = GenericMessage
  /\ \A r1, r2 \in Slots :
       (/\ FailedStage(r1) # ""
        /\ FailedStage(r2) # ""
        /\ FailureCode(r1) = FailureCode(r2))
         => resp[r1] = resp[r2]

\* the same connection error ended one request at verification and another
\* at the auto-reply
C10_Witness ==
  \E r1, r2 \in Slots :
    /\ FailedStage(r1) = "verify"
    /\ FailedStage(r2) = "autoReply"
    /\ FailureCode(r1) = "ECONNECTION"
    /\ FailureCode(r2) = "ECONNECTION"
    /\ resp[r1].status = 500
    /\ resp[r2].status = 500

----------------------------------------------------------------------------
(* The server of lines 1-486 in production and in development mode, with   *)
(* the credentials set or missing.                                         *)

EnvsDebug ==
  {e \in [variant : {"enhanced"},
          EMAIL_USER : {None, Some(OperatorAddress)},
          EMAIL_PASS : {None, Some("app-password")},
          RECIPIENT_EMAIL : {None},
          NODE_ENV : {Some("production"), Some("development")}] :
     IsSome(e.EMAIL_USER) = IsSome(e.EMAIL_PASS)}

InitDebug ==
  /\ env \in EnvsDebug
  /\ now = 0
  /\ store = [c \in Clients |-> [totalHits |-> 0, resetTime |-> 0]]
  /\ admitted = [c \in Clients |-> 0]
  /\ pc = [r \in Slots |-> "idle"]
  /\ client = [r \in Slots |-> "ip1"]
  /\ body = [r \in Slots |-> ValidBody]
  /\ sanitizedBody = [r \in Slots |-> None]
  /\ calls = [r \in Slots |-> NoCalls]
  /\ results = [r \in Slots |-> NoResults]
  /\ sent = [r \in Slots |-> <<>>]
  /\ resp = [r \in Slots |-> NoResponse]
  /\ health = None
  /\ rendered = None
  /\ pending = [r \in Slots |-> None]

SpecDebug == InitDebug /\ [][Next]_vars

----------------------------------------------------------------------------
(* Further properties of the route, under Spec *)

\* what the transport's errors and the thrown errors carry inside
InternalDetails ==
  {e.message : e \in TransportErrors \cup {ConfigMissingError, NotAFunctionError}}
    \cup {e.code : e \in TransportErrors}

\* the user messages of the catch block
UserMessages == {AuthMessage, ConnectionMessage, ConfigMessage, GenericMessage}

\* C12 (under SpecDebug): outside development mode no response body carries
\* the transport's error code, error message or stack: a 500 body has one of
\* the fixed user messages as its error, no debug detail and no other field.
C12_NoInternalsInProduction ==
  \A r \in Slots :
    (env.NODE_ENV # Some("development") /\ resp[r].status # 0) =>
      /\ DOMAIN resp[r].body \subseteq
           {"success", "error", "errors", "message", "messageIds", "status",
            "debug"}
      /\ "debug" \in DOMAIN resp[r].body => resp[r].body.debug = None
      /\ resp[r].status = 500 =>
           /\ resp[r].body.error \in UserMessages
           /\ resp[r].body.error \notin InternalDetails

\* a transport error ended a request in production mode
C12_Witness ==
  \E r \in Slots :
    /\ env.NODE_ENV = Some("production")
    /\ resp[r].status = 500
    /\ results[r].notification = "EAUTH"
    /\ resp[r].body.debug = None

\* C13: within one request, verification, the notification send and the
\* auto-reply send are each invoked at most once, and a stage that failed
\* ends the request: nothing is invoked again after it.
C13_NoRetry ==
  \A r \in Slots :
    /\ calls[r].create <= 1
    /\ calls[r].verify <= 1
    /\ calls[r].notification <= 1
    /\ calls[r].autoReply <= 1
    /\ Failed(results[r].verify) =>
         pc[r] = "done" /\ calls[r].verify = 1 /\ calls[r].notification = 0
    /\ Failed(results[r].notification) =>
         pc[r] = "done" /\ calls[r].notification = 1 /\ calls[r].autoReply = 0
    /\ Failed(results[r].autoReply) => pc[r] = "done" /\ calls[r].autoReply = 1

\* a request ended by a failed notification send, sent once
C13_Witness ==
  \E r \in Slots :
    /\ Failed(results[r].notification)
    /\ calls[r].notification = 1
    /\ pc[r] = "done"
    /\ resp[r].status = 500

\* C16: a request passes its stages in the order rate check, validation,
\* verification, notification, auto-reply: a stage is started only after
\* every earlier stage of the request succeeded, the auto-reply is handed
\* to the transport only after the notification of the request was
\* accepted, and a failed stage ends the request with no later stage run.
C16_StageOrder ==
  \A r \in Slots :
    /\ resp[r].status = 429 => sanitizedBody[r] = None /\ calls[r] = NoCalls
    /\ resp[r].status = 400 => sanitizedBody[r] = None /\ calls[r] = NoCalls
    /\ calls[r].verify > 0 => IsSome(sanitizedBody[r])
    /\ calls[r].notification > 0 => results[r].verify = "ok"
    /\ calls[r].autoReply > 0 =>
         /\ results[r].notification = "ok"
         /\ Len(sent[r]) >= 1
         /\ sent[r][1].kind = "notification"
    /\ \A i \in 1..Len(sent[r]) :
         sent[r][i].kind = "autoReply" => i = 2
    /\ pc[r] = "verifying" => results[r] = NoResults
    /\ pc[r] = "sending_notification" =>
         results[r].verify = "ok" /\ results[r].notification = "none"
    /\ pc[r] = "sending_autoreply" =>
         results[r].notification = "ok" /\ results[r].autoReply = "none"
    /\ Failed(results[r].verify) =>
         pc[r] = "done" /\ results[r].notification = "none"
    /\ Failed(results[r].notification) =>
         pc[r] = "done" /\ results[r].autoReply = "none"

\* a request whose auto-reply is at the transport, after its notification
C16_Witness ==
  \E r \in Slots :
    /\ pc[r] = "sending_autoreply"
    /\ Len(sent[r]) = 1
    /\ sent[r][1].kind = "notification"

\* slot r's request, past the limiter, is answered by this step
Finishes(r) == pc[r] \in {"rate_checked"} \cup Suspended /\ pc'[r] = "done"

\* C18: the limiter runs before validation and before the transport: every
\* request that reaches it is counted in its client's window, a request over
\* the limit is answered 429 without being validated, whatever its body,
\* and a request that ends 400 or 500 leaves its hit counted.
C18_EveryRequestCounts ==
  [][\A r \in Slots :
       /\ PassesLimiter(r) =>
            /\ store'[client[r]].totalHits =
                 IF WindowRunning(client[r])
                 THEN store[client[r]].totalHits + 1 ELSE 1
            /\ sanitizedBody'[r] = None
            /\ resp'[r].status \in {0, 429}
            /\ (WindowRunning(client[r]) /\ store[client[r]].totalHits >= max)
                 => resp'[r].status = 429
       /\ Finishes(r) => store' = store /\ admitted' = admitted]_vars

\* an invalid submission over the limit was answered 429, after another
\* request of the client that ended 400 or 500 used up the window with it
C18_Witness ==
  \E r1, r2 \in Slots :
    /\ client[r1] = client[r2]
    /\ body[r1] = InvalidBody
    /\ resp[r1].status = 429
    /\ resp[r2].status \in {400, 500}
    /\ store[client[r1]].totalHits = max + 1

----------------------------------------------------------------------------
(* The send handler on every submission of ValidateInputs: one request     *)
(* past the limiter is validated and, when it passes, verified and sent.   *)

NextHandler ==
  \/ \E r \in Slots : validateContactForm(r)
  \/ \E r \in Slots, o \in Outcomes : VerifyDone(r, o)
  \/ \E r \in Slots, o \in Outcomes : NotificationDone(r, o)
  \/ \E r \in Slots, o \in Outcomes : AutoReplyDone(r, o)

SpecHandler == InitValidate /\ [][NextHandler]_vars

\* the send handler of slot r's request has run
HandlerRan(r) == calls[r].create > 0

\* C20 (under SpecHandler): whenever the send handler runs, req.sanitizedBody
\* holds a record that satisfies all four field constraints at once (name
\* length in [2,100], well-formed email, subject length in [5,200], message
\* length in [10,1000]), and every email handed to the transport is one of
\* the two templates built from that record.
C20_HandlerSeesValidRecord ==
  \A r \in Slots :
    /\ HandlerRan(r) =>
         /\ IsSome(sanitizedBody[r])
         /\ \A f \in Fields : FieldOk(Get(sanitizedBody[r]), f)
    /\ sent[r] # <<>> => HandlerRan(r)
    /\ \A i \in 1..Len(sent[r]) :
         \E t \in {"notificationEmail", "autoReplyEmail"} :
           sent[r][i] =
             accepted(r, createEmailTemplates(Get(sanitizedBody[r]))[t])

\* both emails of a submission with every length on its lower boundary
\* were handed to the transport
C20_Witness ==
  \E r \in Slots :
    /\ HandlerRan(r)
    /\ Len(sent[r]) = 2
    /\ Len(Get(sanitizedBody[r]).name) = 2
    /\ Len(Get(sanitizedBody[r]).subject) = 5
    /\ Len(Get(sanitizedBody[r]).message) = 10

----------------------------------------------------------------------------
(* The route when every step that can be taken is taken: the middleware    *)
(* runs once a request has arrived, and each transport operation that was  *)
(* started completes, with success or with a failure.                      *)

EnvsLive ==
  {e \in Envs : e.variant = "enhanced" /\ IsSome(e.EMAIL_USER) = IsSome(e.EMAIL_PASS)}

InitLive ==
  /\ env \in EnvsLive
  /\ now = 0
  /\ store = [c \in Clients |-> [totalHits |-> 0, resetTime |-> 0]]
  /\ admitted = [c \in Clients |-> 0]
  /\ pc = [r \in Slots |-> "idle"]
  /\ client = [r \in Slots |-> "ip1"]
  /\ body = [r \in Slots |-> ValidBody]
  /\ sanitizedBody = [r \in Slots |-> None]
  /\ calls = [r \in Slots |-> NoCalls]
  /\ results = [r \in Slots |-> NoResults]
  /\ sent = [r \in Slots |-> <<>>]
  /\ resp = [r \in Slots |-> NoResponse]
  /\ health = None
  /\ rendered = None
  /\ pending = [r \in Slots |-> None]

\* WF_vars(validateContactForm(r)), its ENABLED written out: the middleware
\* can run exactly when the request has passed the limiter
ValidationRuns(r) ==
  []<>(pc[r] # "rate_checked") \/ []<><<validateContactForm(r)>>_vars

\* the requests in flight together in this specification
LiveSlots == {r \in Slots : r <= 2}

NextLive ==
  \/ Tick
  \/ \E r \in LiveSlots, c \in PipelineClients, b \in Bodies : Receive(r, c, b)
  \/ \E r \in LiveSlots : contactLimiter(r)
  \/ \E r \in LiveSlots : validateContactForm(r)
  \/ \E r \in LiveSlots, o \in Outcomes : VerifyDone(r, o)
  \/ \E r \in LiveSlots, o \in Outcomes : NotificationDone(r, o)
  \/ \E r \in LiveSlots, o \in Outcomes : AutoReplyDone(r, o)

Completion ==
  \A r \in LiveSlots :
    /\ WF_vars(contactLimiter(r))
    /\ ValidationRuns(r)
    /\ WF_vars(\E o \in Outcomes : VerifyDone(r, o))
    /\ WF_vars(\E o \in Outcomes : NotificationDone(r, o))
    /\ WF_vars(\E o \in Outcomes : AutoReplyDone(r, o))

SpecLive == InitLive /\ [][NextLive]_vars /\ Completion

\* slot r's request has its response
Answered(r) == resp[r].status # 0

\* C11 (under SpecLive): every request gets exactly one response, 429, 400,
\* 200 or 500. A request is finished exactly when its response is written;
\* a stage that failed has its 500 response, none is dropped; a response
\* once written is not written again for the request; and, every started
\* transport operation completing, each request that arrived is eventually
\* answered.
C11_ExactlyOneResponse ==
  /\ [](\A r \in Slots :
          /\ resp[r].status \in {0, 429, 400, 200, 500}
          /\ pc[r] = "done" <=> Answered(r)
          /\ (\E st \in {"verify", "notification", "autoReply"} :
                Failed(results[r][st])) => resp[r].status = 500)
  /\ [][\A r \in Slots :
          Answered(r) => (resp'[r] = resp[r] \/ pc'[r] = "received")]_vars
  /\ \A r \in Slots : (pc[r] = "received") ~> Answered(r)

\* a request whose auto-reply failed after its notification was accepted
\* has its one response
C11_Witness ==
  \E r \in Slots :
    /\ Answered(r)
    /\ resp[r].status = 500
    /\ Failed(results[r].autoReply)
    /\ pc[r] = "done"

----------------------------------------------------------------------------
(* GET /api/health, asked at any moment of the route's runs *)

\* the body of the health response
healthResponse ==
  IF env.variant = "enhanced"
  THEN [status |-> "OK", timestamp |-> now, service |-> "Contact Form API",
        emailConfigured |-> emailConfigured]
  ELSE [status |-> "OK", timestamp |-> now, service |-> "Contact Form API"]

\* GET /api/health is answered
Health ==
  /\ health' = Some(healthResponse)
  /\ UNCHANGED <<env, now, store, admitted, pc, client, body, sanitizedBody,
                 calls, results, sent, resp, rendered, pending>>

NextHealth == NextLive \/ Health

SpecHealth == Init /\ [][NextHealth]_vars

\* C14 (under SpecHealth): the health response reports emailConfigured, true
\* exactly when both credentials are configured, and a step that answers a
\* health request changes no client's window, no request in flight and no
\* sent email.
C14_HealthReportsConfig ==
  /\ [](IsSome(health) =>
          /\ "emailConfigured" \in DOMAIN Get(health)
          /\ Get(health).emailConfigured = emailConfigured)
  /\ [][health' # health =>
          UNCHANGED <<env, now, store, admitted, pc, client, body,
                      sanitizedBody, calls, results, sent, resp, rendered, pending>>]_vars

----------------------------------------------------------------------------
(* createEmailTemplates as a function of the record: it is applied, at any *)
(* instant, to the sanitized records below that pass validation.           *)

Str_ab == <<"a", "b">>
Str_e == <<"e", "@", "x", ".", "c", "o">>
Str_g == <<"g", "@", "x", ".", "c", "o">>
Str_s == Rep("s", 5)
Str_t == Rep("t", 5)
Str_m == Rep("m", 10)

RenderNames ==
  {Str_ab, Str_ab \o TextEmail \o Str_e \o TextSubject \o Str_s,
   <<"S", "e", "n", "t", ":", " ", "x">>}

RenderEmails == {Str_e, Str_g}

RenderSubjects ==
  {Str_s, Str_t, Str_s \o TextEmail \o Str_g \o TextSubject \o Str_t}

RenderMessages ==
  {Str_m, Str_m \o TextSent \o <<"n", "o", "w">>,
   <<"o", "n", "e", "\n", "t", "w", "o", "\n", "t", "h", "r", "e", "e">>,
   Str_m \o TextMessage \o Str_m,
   Rep("m", 100), Rep("m", 101), Rep("m", 150), Rep("m", 200), Rep("m", 201),
   Rep("m", 1000)}

\* a record the validator passes on: sanitizing it changes nothing and no
\* field has an error
IsSanitizedRecord(d) ==
  /\ sanitizedData([f \in Fields |-> Some(d[f])]) = d
  /\ DOMAIN validationErrors(d) = {}

RenderRecords ==
  {d \in [name : RenderNames, email : RenderEmails, subject : RenderSubjects,
          message : RenderMessages] : IsSanitizedRecord(d)}

\* createEmailTemplates(req.sanitizedBody), as the route calls it
Render(d) ==
  /\ rendered' = Some([data |-> d,
                       email |-> createEmailTemplates(d).notificationEmail,
                       reply |-> createEmailTemplates(d).autoReplyEmail])
  /\ UNCHANGED <<env, now, store, admitted, pc, client, body, sanitizedBody,
                 calls, results, sent, resp, health, pending>>

InitRender ==
  /\ env = ProductionEnv
  /\ now = 0
  /\ store = [c \in Clients |-> [totalHits |-> 0, resetTime |-> 0]]
  /\ admitted = [c \in Clients |-> 0]
  /\ pc = [r \in Slots |-> "idle"]
  /\ client = [r \in Slots |-> "ip1"]
  /\ body = [r \in Slots |-> ValidBody]
  /\ sanitizedBody = [r \in Slots |-> None]
  /\ calls = [r \in Slots |-> NoCalls]
  /\ results = [r \in Slots |-> NoResults]
  /\ sent = [r \in Slots |-> <<>>]
  /\ resp = [r \in Slots |-> NoResponse]
  /\ health = None
  /\ rendered = None
  /\ pending = [r \in Slots |-> None]

NextRender ==
  \/ Tick
  \/ \E d \in RenderRecords : Render(d)

SpecRender == InitRender /\ [][NextRender]_vars

\* C15 (under SpecRender): the plain-text body of the notification gives
\* back the record it was rendered from: the name, email, subject and
\* message that a parser reads from the text are those of the record, so
\* no other record that passes validation renders to the same text.
C15_TextDeterminesRecord ==
  IsSome(rendered) =>
    \A d \in RenderRecords :
      notificationText(d) = Get(rendered).email.text => d = Get(rendered).data

----------------------------------------------------------------------------
(* Two clients at the limiter: valid submissions of ip1 and ip2 interleave *)
(* in every way, in the configured production deployment.                  *)

\* the transport succeeds or refuses the credentials
ClientOutcomes == {o \in Outcomes : o.code \in {"ok", "EAUTH"}}

NextClients ==
  \/ Tick
  \/ \E r \in LiveSlots, c \in Clients, b \in {ValidBody} : Receive(r, c, b)
  \/ \E r \in LiveSlots : contactLimiter(r)
  \/ \E r \in LiveSlots : validateContactForm(r)
  \/ \E r \in LiveSlots, o \in ClientOutcomes : VerifyDone(r, o)
  \/ \E r \in LiveSlots, o \in ClientOutcomes : NotificationDone(r, o)
  \/ \E r \in LiveSlots, o \in ClientOutcomes : AutoReplyDone(r, o)

SpecClients == InitRender /\ [][NextClients]_vars

\* the requests of client c that this step takes through the limiter
AtLimiter(c) == {r \in Slots : client[r] = c /\ PassesLimiter(r)}

\* C19 (under SpecClients): the limiter's decisions on the requests of one
\* client do not depend on the other clients. Every step keeps, for every
\* client c: a step that is not the limiter on a request of c leaves the
\* window of c as it is, and the limiter on a request of c counts and
\* decides from the window of c and the time alone. Two runs with the same
\* requests of c at the same times then give c the same windows and the
\* same decisions, whatever the other clients send.
C19_ClientsIndependent ==
  [][\A c \in Clients :
       /\ AtLimiter(c) = {} => store'[c] = store[c] /\ admitted'[c] = admitted[c]
       /\ \A r \in AtLimiter(c) :
            LET hits == IF WindowRunning(c) THEN store[c].totalHits + 1 ELSE 1
            IN /\ store'[c].totalHits = hits
               /\ store'[c].resetTime =
                    IF WindowRunning(c) THEN store[c].resetTime
                    ELSE now + windowMs
               /\ resp'[r].status = 429 <=> hits > max
               /\ pc'[r] = "rate_checked" <=> hits <= max]_vars

\* one client is over its limit while a request of the other client has
\* been admitted in that client's own window
C19_Witness ==
  \E r1, r2 \in Slots :
    /\ client[r1] = "ip1"
    /\ client[r2] = "ip2"
    /\ resp[r1].status = 429
    /\ pc[r2] = "rate_checked"
    /\ store["ip1"].totalHits > max
    /\ store["ip2"].totalHits \in 1..max

----------------------------------------------------------------------------
(* The preview of the message in the auto-reply, under SpecRender *)

\* the part of a rendition between two of its fixed pieces
Between(rendition, before, after) ==
  LET p == CHOOSE i \in 1..Len(rendition) : rendition[i] = before
      q == CHOOSE i \in 1..Len(rendition) : rendition[i] = after
  IN SubSeq(rendition, p + 1, q - 1)

\* the preview shown by the html and by the plain text of an auto-reply
HtmlPreview(reply) == Between(reply.html, HtmlMessage, HtmlRest)
TextPreview(reply) == Between(reply.text, ReplyMessage, ReplyRest)

\* the first N characters of m, with the ellipsis exactly when m is longer
Truncated(m, N) ==
  IF Len(m) > N THEN [i \in 1..(N + 3) |-> IF i <= N THEN m[i] ELSE "."]
  ELSE m

\* the caps a preview of a message of at most 1000 characters can have
Caps == 0..1000

\* C23 (under SpecRender): there is one cap N such that the preview in the
\* html and the preview in the plain text of the auto-reply are both the
\* first N characters of the message, followed by '...' exactly when the
\* message is longer than N.
C23_OneCapForBothRenditions ==
  IsSome(rendered) =>
    \E N \in Caps :
      /\ HtmlPreview(Get(rendered).reply) = Truncated(Get(rendered).data.message, N)
      /\ TextPreview(Get(rendered).reply) = Truncated(Get(rendered).data.message, N)

----------------------------------------------------------------------------
(* Two submissions in flight together: the emails of concurrent requests   *)
(* with different fields, in the configured production deployment with and *)
(* without RECIPIENT_EMAIL.                                                *)

InboxAddress == <<"i", "n", "@", "x", ".", "c", "o", "m">>

EnvsMail ==
  {[ProductionEnv EXCEPT !.RECIPIENT_EMAIL = x] : x \in {None, Some(InboxAddress)}}

\* a second valid submission: every field differs from ValidBody's, and the
\* message is longer than both previews of the auto-reply
OtherBody ==
  [name |-> Some(<<" ", "B", "o">>),
   email |-> Some(<<"b", "o", "@", "x", ".", "c", "o", " ">>),
   subject |-> Some(<<"O", "r", "d", "e", "r", " ", "7">>),
   message |-> Some(Rep("z", 250))]

MailBodies == {ValidBody, OtherBody}

InitMail ==
  /\ env \in EnvsMail
  /\ now = 0
  /\ store = [c \in Clients |-> [totalHits |-> 0, resetTime |-> 0]]
  /\ admitted = [c \in Clients |-> 0]
  /\ pc = [r \in Slots |-> "idle"]
  /\ client = [r \in Slots |-> "ip1"]
  /\ body = [r \in Slots |-> ValidBody]
  /\ sanitizedBody = [r \in Slots |-> None]
  /\ calls = [r \in Slots |-> NoCalls]
  /\ results = [r \in Slots |-> NoResults]
  /\ sent = [r \in Slots |-> <<>>]
  /\ resp = [r \in Slots |-> NoResponse]
  /\ health = None
  /\ rendered = None
  /\ pending = [r \in Slots |-> None]

NextMail ==
  \/ Tick
  \/ \E r \in LiveSlots, c \in PipelineClients, b \in MailBodies : Receive(r, c, b)
  \/ \E r \in LiveSlots : contactLimiter(r)
  \/ \E r \in LiveSlots : validateContactForm(r)
  \/ \E r \in LiveSlots, o \in ClientOutcomes : VerifyDone(r, o)
  \/ \E r \in LiveSlots, o \in ClientOutcomes : NotificationDone(r, o)
  \/ \E r \in LiveSlots, o \in ClientOutcomes : AutoReplyDone(r, o)

SpecMail == InitMail /\ [][NextMail]_vars

\* the emails of request r that have been handed to the transport: the one
\* of the awaited send in full, the accepted ones as the log keeps them
Handed(r) ==
  (IF IsSome(pending[r]) THEN {Get(pending[r])} ELSE {})
    \cup {sent[r][i] : i \in DOMAIN sent[r]}

\* the recipient the deployment is configured with
OperatorRecipient ==
  IF IsSome(env.RECIPIENT_EMAIL) THEN env.RECIPIENT_EMAIL ELSE env.EMAIL_USER

\* C22 (under SpecMail): every notification handed to the transport is
\* addressed to the recipient the deployment is configured with, whatever
\* was submitted, and every auto-reply to exactly the validated email
\* address of its own submission.
C22_Recipients ==
  \A r \in Slots : \A m \in Handed(r) :
    /\ m.kind = "notification" => m.to = OperatorRecipient
    /\ m.kind = "autoReply" =>
         /\ m.to = Some(sanitize(body[r].email))
         /\ isEmail(Get(m.to))

\* with RECIPIENT_EMAIL set, the notification of a submission has been
\* accepted and its auto-reply is awaited, while the notification of the
\* other submission is awaited
C22_Witness ==
  \E r, s \in Slots :
    /\ IsSome(env.RECIPIENT_EMAIL)
    /\ body[r] = OtherBody /\ body[s] = ValidBody
    /\ Len(sent[r]) = 1 /\ sent[r][1].kind = "notification"
    /\ IsSome(pending[r]) /\ Get(pending[r]).kind = "autoReply"
    /\ IsSome(pending[s]) /\ Get(pending[s]).kind = "notification"

\* p is the beginning of s; p is the end of s; p occurs in s
IsPrefix(p, s) == Len(p) <= Len(s) /\ SubSeq(s, 1, Len(p)) = p
IsSuffix(p, s) == Len(p) <= Len(s) /\ SubSeq(s, Len(s) - Len(p) + 1, Len(s)) = p
Contains(s, p) ==
  \E i \in 0..(Len(s) - Len(p)) : SubSeq(s, i + 1, i + Len(p)) = p

\* p is a beginning of message, alone or followed by the ellipsis
IsPreviewOf(p, message) ==
  \/ IsPrefix(p, message)
  \/ /\ IsSuffix(<<".", ".", ".">>, p)
     /\ IsPrefix(SubSeq(p, 1, Len(p) - 3), message)

\* the renditions of an email that the model keeps
Renditions(m) ==
  {m.subject}
    \cup (IF "text" \in DOMAIN m THEN {m.text} ELSE {})
    \cup (IF "html" \in DOMAIN m THEN {m.html} ELSE {})

\* email m shows the fields of record d at the places of its template
Shows(m, d) ==
  /\ IsSuffix(d.subject, m.subject)
  /\ Len(m.subject) = Len(d.subject) + 1
  /\ (m.kind = "notification" /\ "text" \in DOMAIN m) =>
       IsPrefix(TextHead \o d.name \o TextEmail \o d.email \o TextSubject
                  \o d.subject \o TextMessage \o d.message \o TextSent,
                m.text)
  /\ (m.kind = "autoReply" /\ "text" \in DOMAIN m) =>
       /\ Between(m.text, ReplyHi, ReplyThanks) = d.name
       /\ Between(m.text, ReplyThanks, ReplyMessage) = d.subject
       /\ IsPreviewOf(TextPreview(m), d.message)
       /\ Between(m.html, HtmlHi, HtmlThanks) = d.name
       /\ Between(m.html, HtmlThanks, HtmlMessage) = d.subject
       /\ IsPreviewOf(HtmlPreview(m), d.message)

\* no field of record d occurs in a rendition of email m
Foreign(m, d) ==
  \A f \in Fields : \A t \in Renditions(m) : ~Contains(t, d[f])

\* C21 (under SpecMail): under every interleaving of the requests in
\* flight, each email handed to the transport for a request shows the
\* sanitized name, email, subject and message of that request's own
\* submission (the auto-reply: the name, the subject and a beginning of
\* the message), and no field of a different submission in flight occurs
\* in it.
C21_EmailsOfOwnRequest ==
  \A r \in Slots : \A m \in Handed(r) :
    /\ Shows(m, sanitizedData(body[r]))
    /\ \A s \in Slots \ {r} :
         (pc[s] # "idle" /\ body[s] # body[r]) =>
           Foreign(m, sanitizedData(body[s]))

\* the two submissions are in flight together after both have been
\* validated: the notification of one and the auto-reply of the other are
\* awaited
C21_Witness ==
  \E r, s \in Slots :
    /\ body[r] = ValidBody /\ body[s] = OtherBody
    /\ IsSome(sanitizedBody[r]) /\ IsSome(sanitizedBody[s])
    /\ IsSome(pending[r]) /\ Get(pending[r]).kind = "notification"
    /\ IsSome(pending[s]) /\ Get(pending[s]).kind = "autoReply"
    /\ Len(TextPreview(Get(pending[s]))) = 203

====
